---- MODULE Spec2Model ----
(***************************************************************************)
(* Model of the logging adapter (default.py, contrastive/wandb_logger.py)  *)
(* and of the agent assembler (contrastive/agents.py).                     *)
(*                                                                         *)
(* One Python process is modelled.  The module-level state is the pair of  *)
(* import flags, the global wandb.run and the WandbLogger instances that   *)
(* have been constructed.  The logger most recently returned by one of the *)
(* two factories is kept with the run-time state of its wrappers, so that  *)
(* write calls on it can be followed down to the sinks.                    *)
(***************************************************************************)
EXTENDS Integers, Sequences, FiniteSets, TLC

\* ------------------------------------------------------------------ bounds
MaxWandbLoggers == 2   \* WandbLogger instances constructed in the process
MaxInits == 2          \* calls of wandb.init
MaxFinish == 2         \* calls of finish_wandb
MaxClock == 2          \* ticks of time.time() after the start
MaxWrites == 3         \* write calls on the factory-made logger
MaxQueue == 2          \* records waiting in the AsyncLogger
MaxDelta == 2          \* largest time_delta tried
MaxDim == 2            \* largest max_episode_steps / obs_dim tried

\* Python's None, for wandb.run, self._run and dictionary values.
None == 0

Labels == {"learner", "actor"}

VARIABLES
    WANDB_AVAILABLE,         \* wandb_logger.py: import wandb succeeded
    WANDB_LOGGER_AVAILABLE,  \* default.py: import of WandbLogger succeeded
    wandbRun,                \* wandb.run: None or the id of the active run
    initCalls,               \* wandb.init calls made so far (ids of runs)
    finishCalls,             \* wandb.finish calls made so far
    wandbLoggers,            \* the WandbLogger instances, in construction order
    lastCtor,                \* what the last WandbLogger.__init__ call did
    wandbLog,                \* the last wandb.log call
    logger,                  \* the logger the last factory call returned
    printed,                 \* what the last factory call printed
    pipe,                    \* run-time state of that logger's wrappers
    clock,                   \* time.time()
    lastOp,                  \* the operation that ran last
    agent                    \* inputs and result of DistributedContrastive.__init__

vars == <<WANDB_AVAILABLE, WANDB_LOGGER_AVAILABLE, wandbRun, initCalls,
          finishCalls, wandbLoggers, lastCtor, wandbLog, logger, printed,
          pipe, clock, lastOp, agent>>

wandbVars == <<wandbRun, initCalls, finishCalls, wandbLoggers, lastCtor>>
pipeVars == <<logger, printed, pipe>>
importVars == <<WANDB_AVAILABLE, WANDB_LOGGER_AVAILABLE>>

\* ------------------------------------------------- wandb (third party SDK)
\* What a call of wandb.init can do: return a new run (which becomes
\* wandb.run), raise, or return without a run.
InitOutcomes == {"run", "raise", "none"}

\* ------------------------------------------------- WandbLogger.__init__
\* The constructor as a function of its inputs and of the process state:
\*   run      wandb.run when the constructor is entered
\*   outcome  what wandb.init does if it is called
\*   fresh    the id the run gets if wandb.init creates one
\* The result says how the constructor ended (exc), whether it called
\* wandb.init, what self._run is and what wandb.run is afterwards.
WandbLoggerInitSkipNoneCheck(label, init_wandb, run, outcome, fresh) ==
    IF ~WANDB_AVAILABLE
    THEN [exc |-> "ImportError", calledInit |-> FALSE, selfRun |-> None, run |-> run]
    ELSE IF init_wandb /\ run = None
    THEN CASE outcome = "run" ->
                [exc |-> "ok", calledInit |-> TRUE, selfRun |-> fresh, run |-> fresh]
           [] outcome = "raise" ->
                [exc |-> "InitError", calledInit |-> TRUE, selfRun |-> None, run |-> run]
           [] OTHER ->
                [exc |-> "ok", calledInit |-> TRUE, selfRun |-> None, run |-> run]
    ELSE [exc |-> "ok", calledInit |-> FALSE, selfRun |-> run, run |-> run]

WandbLoggerInitAlwaysInit(label, init_wandb, run, outcome, fresh) ==
    IF ~WANDB_AVAILABLE
    THEN [exc |-> "ImportError", calledInit |-> FALSE, selfRun |-> None, run |-> run]
    ELSE IF init_wandb
    THEN CASE outcome = "run" ->
                [exc |-> "ok", calledInit |-> TRUE, selfRun |-> fresh, run |-> fresh]
           [] outcome = "raise" ->
                [exc |-> "InitError", calledInit |-> TRUE, selfRun |-> None, run |-> run]
           [] OTHER ->
                [exc |-> "RuntimeError", calledInit |-> TRUE, selfRun |-> None, run |-> run]
    ELSE IF run = None
    THEN [exc |-> "RuntimeError", calledInit |-> FALSE, selfRun |-> None, run |-> run]
    ELSE [exc |-> "ok", calledInit |-> FALSE, selfRun |-> run, run |-> run]

WandbLoggerInit(label, init_wandb, run, outcome, fresh) ==
    IF ~WANDB_AVAILABLE
    THEN [exc |-> "ImportError", calledInit |-> FALSE, selfRun |-> None, run |-> run]
    ELSE IF init_wandb /\ run = None
    THEN CASE outcome = "run" ->
                [exc |-> "ok", calledInit |-> TRUE, selfRun |-> fresh, run |-> fresh]
           [] outcome = "raise" ->
                [exc |-> "InitError", calledInit |-> TRUE, selfRun |-> None, run |-> run]
           [] OTHER ->
                [exc |-> "RuntimeError", calledInit |-> TRUE, selfRun |-> None, run |-> run]
    ELSE IF run = None
    THEN [exc |-> "RuntimeError", calledInit |-> FALSE, selfRun |-> None, run |-> run]
    ELSE [exc |-> "ok", calledInit |-> FALSE, selfRun |-> run, run |-> run]

\* ------------------------------------------------- dictionaries of metrics
\* A metrics dictionary is a function from its keys to values; None marks a
\* value that is None.
Get(d, k) == IF k \in DOMAIN d THEN d[k] ELSE None

DataSet ==
    { ("steps" :> 1 @@ "loss" :> None),
      ("learner_steps" :> 2 @@ "loss" :> 1),
      ("actor_steps" :> None @@ "loss" :> None),
      ("loss" :> 2) }

\* The dictionaries written to a factory-made logger: one with None values
\* and one without.
PipeData ==
    { ("steps" :> 1 @@ "loss" :> None),
      ("loss" :> 2) }

\* A record travelling through the wrappers: the dictionary, and how often
\* it has been None-filtered and serialized on the way.
Msg(d) == [data |-> d, nf |-> 0, ser |-> 0]

\* ------------------------------------------------- WandbLogger.write
\* The call of wandb.log the write makes, or the early return.  run is
\* wandb.run at the time of the call.
NoCall == [kind |-> "nocall"]

WandbLoggerWrite(self, data, run) ==
    IF self.run = None
    THEN [kind |-> "skipped"]
    ELSE LET prefixed == { <<self.label, k>> : k \in DOMAIN data }
             s1 == Get(data, "steps")
             s2 == IF s1 = None THEN Get(data, "learner_steps") ELSE s1
             step == IF s2 = None THEN Get(data, "actor_steps") ELSE s2
         IN [kind |-> "log", keys |-> prefixed, step |-> step,
             selfRun |-> self.run, run |-> run]

\* ------------------------------------------------- finish_wandb
\* finish_wandb calls wandb.finish (which ends the run) only when wandb was
\* imported and a run is active.
FinishWandb(run) ==
    IF WANDB_AVAILABLE /\ run # None
    THEN [called |-> TRUE, run |-> None]
    ELSE [called |-> FALSE, run |-> run]

\* ------------------------------------------------- the two factories
\* The sinks come in a list; a wandb sink names its WandbLogger instance.
Terminal == [kind |-> "terminal", ref |-> 0]
CSV == [kind |-> "csv", ref |-> 0]
Wandb(i) == [kind |-> "wandb", ref |-> i]

NotAttempted == [exc |-> "not_attempted", calledInit |-> FALSE,
                 selfRun |-> None, run |-> None]

\* The list `loggers` built by make_wandb_logger, what it prints, and the
\* exception leaving the factory ("none": it returns).  ctor is the result
\* of WandbLogger(...) should the factory come to call it, ref the index
\* the new instance gets.
MakeSinksNoTry(save_data, use_wandb, ctor, ref) ==
    LET base == <<Terminal>> \o (IF save_data THEN <<CSV>> ELSE <<>>)
    IN  IF ~use_wandb
        THEN [sinks |-> base, printed |-> <<>>, raised |-> "none"]
        ELSE IF ~WANDB_LOGGER_AVAILABLE
        THEN [sinks |-> base, printed |-> <<"warning: not available">>,
              raised |-> "none"]
        ELSE IF ctor.exc = "ok"
        THEN [sinks |-> base \o <<Wandb(ref)>>, printed |-> <<"enabled">>,
              raised |-> "none"]
        ELSE [sinks |-> <<>>, printed |-> <<>>, raised |-> ctor.exc]

MakeSinksWandbFirst(save_data, use_wandb, ctor, ref) ==
    LET base == <<Terminal>> \o (IF save_data THEN <<CSV>> ELSE <<>>)
    IN  IF ~use_wandb
        THEN [sinks |-> base, printed |-> <<>>, raised |-> "none"]
        ELSE IF ~WANDB_LOGGER_AVAILABLE
        THEN [sinks |-> base, printed |-> <<"warning: not available">>,
              raised |-> "none"]
        ELSE IF ctor.exc = "ok"
        THEN [sinks |-> <<Wandb(ref)>> \o base, printed |-> <<"enabled">>,
              raised |-> "none"]
        ELSE [sinks |-> base, printed |-> <<"warning: failed to initialize">>,
              raised |-> "none"]

MakeSinks(save_data, use_wandb, ctor, ref) ==
    LET base == <<Terminal>> \o (IF save_data THEN <<CSV>> ELSE <<>>)
    IN  IF ~use_wandb
        THEN [sinks |-> base, printed |-> <<>>, raised |-> "none"]
        ELSE IF ~WANDB_LOGGER_AVAILABLE
        THEN [sinks |-> base, printed |-> <<"warning: not available">>,
              raised |-> "none"]
        ELSE IF ctor.exc = "ok"
        THEN [sinks |-> base \o <<Wandb(ref)>>, printed |-> <<"enabled">>,
              raised |-> "none"]
        ELSE [sinks |-> base, printed |-> <<"warning: failed to initialize">>,
              raised |-> "none"]

\* The list `loggers` built by make_default_logger.
MakeDefaultSinks(save_data) ==
    <<Terminal>> \o (IF save_data THEN <<CSV>> ELSE <<>>)

\* The wrappers both factories put around the list, innermost first.
MakeWrappersThrottleInside(asynchronous) ==
    <<"Dispatcher", "TimeFilter", "NoneFilter">>
        \o (IF asynchronous THEN <<"AsyncLogger">> ELSE <<>>)

MakeWrappers(asynchronous) ==
    <<"Dispatcher", "NoneFilter">>
        \o (IF asynchronous THEN <<"AsyncLogger">> ELSE <<>>)
        \o <<"TimeFilter">>

\* ------------------------------------------------- the wrappers at run time
NoLogger == [factory |-> "none", sinks |-> <<>>, wrappers |-> <<>>,
             time_delta |-> 0, args |-> <<>>, ctor |-> "not_attempted",
             raised |-> "none"]

\* State of the wrappers of a freshly made logger: TimeFilter._time, the
\* AsyncLogger's queue, and (history) the records that passed the throttle,
\* the write calls received by the sinks, the number of write calls made on
\* the logger, the time since _time at the last write call and the lengths
\* of queue, deliveries and forwarded just before it.
NewPipe == [time |-> 0, queue |-> <<>>, forwarded |-> <<>>,
            deliveries |-> <<>>, writes |-> 0, gap |-> 0,
            before |-> <<0, 0, 0>>]

\* filters.NoneFilter: the entries whose value is None are removed.
NoneFilterValues(d) == [k \in {x \in DOMAIN d : d[x] # None} |-> d[k]]

\* aggregators.Dispatcher: the serialized record is written to every sink
\* in list order.  st carries the wrappers' state and the last wandb.log call.
RECURSIVE DispatchFrom(_, _, _, _)
DispatchFrom(sinks, i, m, st) ==
    IF i > Len(sinks)
    THEN st
    ELSE LET s == sinks[i]
             st1 == [st EXCEPT !.pipe.deliveries = Append(@, <<i, m>>)]
             st2 == IF s.kind = "wandb"
                    THEN [st1 EXCEPT !.wlog =
                            WandbLoggerWrite(wandbLoggers[s.ref], m.data, wandbRun)]
                    ELSE st1
         IN DispatchFrom(sinks, i + 1, m, st2)

\* A write entering wrapper n of the list ws (innermost first) with record m.
\*   TimeFilter   forwards when more than time_delta has passed since the
\*                last forwarded record, and then sets _time to now
\*   AsyncLogger  queues the record for its worker
\*   NoneFilter   forwards the record without its None entries
\*   Dispatcher   serializes the record and writes it to every sink
RECURSIVE Push(_, _, _, _)
Push(ws, n, m, st) ==
    IF n = 0
    THEN st
    ELSE CASE ws[n] = "TimeFilter" ->
                IF clock - st.pipe.time > logger.time_delta
                THEN [Push(ws, n - 1, m,
                           [st EXCEPT !.pipe.forwarded = Append(@, m)])
                        EXCEPT !.pipe.time = clock]
                ELSE st
           [] ws[n] = "AsyncLogger" ->
                [st EXCEPT !.pipe.queue = Append(@, [msg |-> m, at |-> n - 1])]
           [] ws[n] = "NoneFilter" ->
                Push(ws, n - 1,
                     [m EXCEPT !.data = NoneFilterValues(@), !.nf = @ + 1], st)
           [] OTHER ->
                DispatchFrom(logger.sinks, 1, [m EXCEPT !.ser = @ + 1], st)

\* ------------------------------------------------- state after start-up
ClockStart == MaxDelta + 1

NoCtor == [exc |-> "not_attempted", calledInit |-> FALSE, selfRun |-> None,
           run |-> None, init_wandb |-> FALSE, runBefore |-> None,
           initOutcome |-> "not_called"]

AgentIdle == [phase |-> "idle"]

\* The imports at the top of the two modules: WandbLogger can be imported
\* with or without wandb installed; when its import fails there is no wandb
\* either.
ImportStates == {<<TRUE, TRUE>>, <<FALSE, TRUE>>, <<FALSE, FALSE>>}

InitLoggers ==
    /\ \E im \in ImportStates :
          /\ WANDB_AVAILABLE = im[1]
          /\ WANDB_LOGGER_AVAILABLE = im[2]
    /\ wandbRun = None
    /\ initCalls = 0
    /\ finishCalls = 0
    /\ wandbLoggers = <<>>
    /\ lastCtor = NoCtor
    /\ wandbLog = NoCall
    /\ logger = NoLogger
    /\ printed = <<>>
    /\ pipe = NewPipe
    /\ clock = ClockStart
    /\ lastOp = "start"

Init ==
    /\ InitLoggers
    /\ agent = AgentIdle

\* ------------------------------------------------- operations
\* The constructor's effect on the process: wandb.run, the count of
\* wandb.init calls, the instance list (only a constructor that returns adds
\* an instance) and the record of the call.
Construct(label, init_wandb, outcome) ==
    LET c == WandbLoggerInit(label, init_wandb, wandbRun, outcome, initCalls + 1)
    IN  [ctor |-> c,
         run |-> c.run,
         inits |-> IF c.calledInit THEN initCalls + 1 ELSE initCalls,
         loggers |-> IF c.exc = "ok"
                     THEN Append(wandbLoggers,
                                 [label |-> label, run |-> c.selfRun,
                                  epoch |-> finishCalls])
                     ELSE wandbLoggers,
         last |-> [exc |-> c.exc, calledInit |-> c.calledInit,
                   selfRun |-> c.selfRun, run |-> c.run,
                   init_wandb |-> init_wandb, runBefore |-> wandbRun,
                   initOutcome |-> IF c.calledInit THEN outcome
                                   ELSE "not_called"]]

\* WandbLogger(label, init_wandb=...) called directly.
NewWandbLogger(label, init_wandb, outcome) ==
    LET r == Construct(label, init_wandb, outcome)
    IN  /\ WANDB_LOGGER_AVAILABLE
        /\ Len(wandbLoggers) < MaxWandbLoggers
        /\ r.ctor.calledInit => initCalls < MaxInits
        /\ wandbRun' = r.run
        /\ initCalls' = r.inits
        /\ wandbLoggers' = r.loggers
        /\ lastCtor' = r.last
        /\ lastOp' = "WandbLogger"
        /\ UNCHANGED <<importVars, finishCalls, wandbLog, pipeVars, clock, agent>>

\* make_wandb_logger(label, save_data, ..., use_wandb, init_wandb).
MakeWandbLogger(label, save_data, asynchronous, time_delta, use_wandb, init_wandb, outcome) ==
    LET attempt == use_wandb /\ WANDB_LOGGER_AVAILABLE
        r == Construct(label, init_wandb, outcome)
        c == IF attempt THEN r.ctor ELSE NotAttempted
        made == MakeSinks(save_data, use_wandb, c, Len(wandbLoggers) + 1)
    IN  /\ attempt => Len(wandbLoggers) < MaxWandbLoggers
        /\ (attempt /\ r.ctor.calledInit) => initCalls < MaxInits
        /\ IF attempt
           THEN /\ wandbRun' = r.run
                /\ initCalls' = r.inits
                /\ wandbLoggers' = r.loggers
                /\ lastCtor' = r.last
           ELSE UNCHANGED <<wandbRun, initCalls, wandbLoggers, lastCtor>>
        /\ logger' =
             IF made.raised = "none"
             THEN [factory |-> "make_wandb_logger",
                   sinks |-> made.sinks,
                   wrappers |-> MakeWrappers(asynchronous),
                   time_delta |-> time_delta,
                   args |-> <<save_data, asynchronous, use_wandb, init_wandb>>,
                   ctor |-> c.exc,
                   raised |-> "none"]
             ELSE [NoLogger EXCEPT !.factory = "make_wandb_logger",
                                   !.ctor = c.exc, !.raised = made.raised,
                                   !.args = <<save_data, asynchronous,
                                              use_wandb, init_wandb>>]
        /\ printed' = made.printed
        /\ pipe' = NewPipe
        /\ lastOp' = "make_wandb_logger"
        /\ UNCHANGED <<importVars, finishCalls, wandbLog, clock, agent>>

\* make_default_logger(label, save_data, ...).
MakeDefaultLogger(save_data, asynchronous, time_delta) ==
    /\ logger' = [factory |-> "make_default_logger",
                  sinks |-> MakeDefaultSinks(save_data),
                  wrappers |-> MakeWrappers(asynchronous),
                  time_delta |-> time_delta,
                  args |-> <<save_data, asynchronous, FALSE, FALSE>>,
                  ctor |-> "not_attempted",
                  raised |-> "none"]
    /\ printed' = <<>>
    /\ pipe' = NewPipe
    /\ lastOp' = "make_default_logger"
    /\ UNCHANGED <<importVars, wandbVars, wandbLog, clock, agent>>

\* logger.write(d) on the logger the factory returned: the record enters the
\* outermost wrapper.  A full AsyncLogger queue blocks the caller.
Write(d) ==
    LET ws == logger.wrappers
        st == Push(ws, Len(ws), Msg(d), [pipe |-> pipe, wlog |-> wandbLog])
    IN  /\ ws # <<>>
        /\ pipe.writes < MaxWrites
        /\ Len(pipe.queue) < MaxQueue
        /\ pipe' = [st.pipe EXCEPT
                      !.writes = @ + 1,
                      !.gap = clock - pipe.time,
                      !.before = <<Len(pipe.queue), Len(pipe.deliveries),
                                   Len(pipe.forwarded)>>]
        /\ wandbLog' = st.wlog
        /\ lastOp' = "write"
        /\ UNCHANGED <<importVars, wandbVars, logger, printed, clock, agent>>

\* The AsyncLogger's worker takes the oldest queued record and passes it to
\* the wrapper below.
AsyncWorker ==
    /\ pipe.queue # <<>>
    /\ LET h == Head(pipe.queue)
           st == Push(logger.wrappers, h.at, h.msg,
                      [pipe |-> [pipe EXCEPT !.queue = Tail(@)],
                       wlog |-> wandbLog])
       IN /\ pipe' = st.pipe
          /\ wandbLog' = st.wlog
    /\ lastOp' = "worker"
    /\ UNCHANGED <<importVars, wandbVars, logger, printed, clock, agent>>

\* time.time() advances.
Tick ==
    /\ clock < ClockStart + MaxClock
    /\ clock' = clock + 1
    /\ lastOp' = "tick"
    /\ UNCHANGED <<importVars, wandbVars, wandbLog, pipeVars, agent>>

\* WandbLogger.write(d) called directly on instance i.
WandbWrite(i, d) ==
    /\ i \in 1..Len(wandbLoggers)
    /\ wandbLog' = WandbLoggerWrite(wandbLoggers[i], d, wandbRun)
    /\ lastOp' = "WandbLogger.write"
    /\ UNCHANGED <<importVars, wandbVars, pipeVars, clock, agent>>

\* WandbLogger.close() on instance i: the body is `pass`.
WandbCloseFinishes(i) ==
    /\ i \in 1..Len(wandbLoggers)
    /\ wandbRun' = None
    /\ lastOp' = "WandbLogger.close"
    /\ UNCHANGED <<importVars, initCalls, finishCalls, wandbLoggers, lastCtor,
                   wandbLog, pipeVars, clock, agent>>

WandbClose(i) ==
    /\ i \in 1..Len(wandbLoggers)
    /\ lastOp' = "WandbLogger.close"
    /\ UNCHANGED <<importVars, wandbVars, wandbLog, pipeVars, clock, agent>>

\* finish_wandb().
FinishWandbCall ==
    LET f == FinishWandb(wandbRun)
    IN  /\ f.called => finishCalls < MaxFinish
        /\ wandbRun' = f.run
        /\ finishCalls' = IF f.called THEN finishCalls + 1 ELSE finishCalls
        /\ lastOp' = "finish_wandb"
        /\ UNCHANGED <<importVars, initCalls, wandbLoggers, lastCtor, wandbLog,
                       pipeVars, clock, agent>>

\* The values of time_delta tried, in ticks of the clock.
TimeDeltas == 1..MaxDelta

\* The WandbLogger class and finish_wandb, used directly.
NextWandb ==
    \/ \E l \in Labels, iw \in BOOLEAN, o \in InitOutcomes :
          NewWandbLogger(l, iw, o)
    \/ \E i \in 1..MaxWandbLoggers, d \in DataSet : WandbWrite(i, d)
    \/ \E i \in 1..MaxWandbLoggers : WandbClose(i)
    \/ FinishWandbCall

SpecWandb == Init /\ [][NextWandb]_vars

\* The two factories, called in a process where loggers are constructed and
\* runs are finished in between.
NextFactory ==
    \/ \E sd \in BOOLEAN, as \in BOOLEAN, td \in TimeDeltas,
          uw \in BOOLEAN, iw \in BOOLEAN, o \in InitOutcomes :
          MakeWandbLogger("learner", sd, as, td, uw, iw, o)
    \/ \E sd \in BOOLEAN, as \in BOOLEAN, td \in TimeDeltas :
          MakeDefaultLogger(sd, as, td)
    \/ \E iw \in BOOLEAN, o \in InitOutcomes : NewWandbLogger("actor", iw, o)
    \/ FinishWandbCall

SpecFactory == Init /\ [][NextFactory]_vars

\* A logger made by a factory, written to as time passes.  make_wandb_logger
\* is called the way the agent's logger_fn calls it (label "learner",
\* init_wandb true), with a wandb.init that returns a run.
NextPipe ==
    \/ \E sd \in BOOLEAN, as \in BOOLEAN, td \in TimeDeltas,
          uw \in BOOLEAN :
          MakeWandbLogger("learner", sd, as, td, uw, TRUE, "run")
    \/ \E sd \in BOOLEAN, as \in BOOLEAN, td \in TimeDeltas :
          MakeDefaultLogger(sd, as, td)
    \/ \E d \in PipeData : Write(d)
    \/ AsyncWorker
    \/ Tick

SpecPipe == Init /\ [][NextPipe]_vars

\* ------------------------------------------------- DistributedContrastive
\* An Optional list argument: None, or a list of evaluator factories.
NoList == [isNone |-> TRUE, items |-> <<>>]
List(items) == [isNone |-> FALSE, items |-> items]

EvaluatorArgs ==
    {NoList, List(<<>>), List(<<"custom_a">>), List(<<"custom_a", "custom_b">>)}

Dims == (0 - 1)..MaxDim

\* The two assertions at the top of __init__.
AssertConfig(config) ==
    IF ~(config.max_episode_steps > 0) THEN "AssertionError"
    ELSE IF ~(config.obs_dim > 0) THEN "AssertionError"
    ELSE "none"

\* wandb_config_dict: None unless config.use_wandb.
WandbConfigKeys ==
    {"algorithm", "environment", "seed", "max_steps", "num_actors",
     "batch_size", "learning_rate", "actor_learning_rate", "discount", "tau",
     "use_td", "use_cpc", "repr_dim", "hidden_layer_sizes"}

WandbConfigDict(config) ==
    IF config.use_wandb
    THEN [isNone |-> FALSE, keys |-> WandbConfigKeys]
    ELSE [isNone |-> TRUE, keys |-> {}]

\* The arguments bound in logger_fn = functools.partial(make_wandb_logger, ...).
LoggerFn(config, log_to_bigtable) ==
    [label |-> "learner", save_data |-> log_to_bigtable, asynchronous |-> TRUE,
     use_wandb |-> config.use_wandb, init_wandb |-> TRUE,
     wandb_config |-> WandbConfigDict(config)]

\* The evaluator factories handed to the base constructor.
EvaluatorFactoriesLocalDedented(config, evaluator_factories) ==
    IF config.local
    THEN <<>>
    ELSE IF evaluator_factories.isNone
    THEN <<"default_evaluator_factory">>
    ELSE evaluator_factories.items

EvaluatorFactories(config, evaluator_factories) ==
    IF evaluator_factories.isNone
    THEN IF config.local
         THEN <<>>
         ELSE <<"default_evaluator_factory">>
    ELSE evaluator_factories.items

NoResult == [exc |-> "not_run", built |-> <<>>, logger_fn |-> <<>>,
             evaluator_factories |-> <<>>]

\* DistributedContrastive.__init__(..., config, ..., log_to_bigtable,
\* evaluator_factories): what it builds, in order, and what it passes on.
DistributedContrastiveInit(config, log_to_bigtable, evaluator_factories) ==
    IF AssertConfig(config) # "none"
    THEN [exc |-> AssertConfig(config), built |-> <<>>, logger_fn |-> <<>>,
          evaluator_factories |-> <<>>]
    ELSE [exc |-> "none",
          built |-> <<"logger_fn", "builder", "actor_observers", "base">>,
          logger_fn |-> LoggerFn(config, log_to_bigtable),
          evaluator_factories |-> EvaluatorFactories(config, evaluator_factories)]

InitAgent ==
    /\ InitLoggers
    /\ \E mes \in Dims, od \in Dims, uw \in BOOLEAN, lc \in BOOLEAN,
          bt \in BOOLEAN, ef \in EvaluatorArgs :
          agent = [phase |-> "args",
                   config |-> [max_episode_steps |-> mes, obs_dim |-> od,
                               use_wandb |-> uw, local |-> lc],
                   log_to_bigtable |-> bt,
                   evaluator_factories |-> ef,
                   result |-> NoResult]

AgentConstruct ==
    /\ agent.phase = "args"
    /\ agent' = [agent EXCEPT
                   !.phase = "done",
                   !.result = DistributedContrastiveInit(
                                  agent.config, agent.log_to_bigtable,
                                  agent.evaluator_factories)]
    /\ lastOp' = "DistributedContrastive"
    /\ UNCHANGED <<importVars, wandbVars, wandbLog, pipeVars, clock>>

NextAgent == AgentConstruct

SpecAgent == InitAgent /\ [][NextAgent]_vars

\* ========================================================= properties
SinkKinds(s) == {s[i].kind : i \in 1..Len(s)}

\* The arguments of the factory call that made `logger`.
SaveData == logger.args[1]
Asynchronous == logger.args[2]
UseWandb == logger.args[3]
Returned == logger.factory # "none" /\ logger.raised = "none"

\* C1: the list of sinks of the logger returned by make_wandb_logger starts
\* with the terminal sink, holds the CSV sink iff save_data, holds the wandb
\* sink (last, naming a constructed WandbLogger) iff use_wandb, the class was
\* importable and its construction did not raise; nothing else is in the
\* list and nothing is in it twice.
C1_SinkList ==
    (logger.factory = "make_wandb_logger" /\ logger.raised = "none") =>
        LET s == logger.sinks
            hasWandb == UseWandb /\ WANDB_LOGGER_AVAILABLE /\ logger.ctor = "ok"
        IN  /\ Len(s) >= 1
            /\ s[1] = Terminal
            /\ ("csv" \in SinkKinds(s)) <=> SaveData
            /\ ("wandb" \in SinkKinds(s)) <=> hasWandb
            /\ hasWandb => /\ s[Len(s)].kind = "wandb"
                           /\ s[Len(s)].ref \in 1..Len(wandbLoggers)
            /\ SinkKinds(s) \subseteq {"terminal", "csv", "wandb"}
            /\ \A i, j \in 1..Len(s) : s[i].kind = s[j].kind => i = j

C1_Witness ==
    /\ logger.factory = "make_wandb_logger"
    /\ Len(logger.sinks) = 3
    /\ logger.ctor = "ok"

\* C2: a make_wandb_logger call with use_wandb whose WandbLogger is not
\* available, or whose construction raises (ImportError, RuntimeError, an
\* error of wandb.init), still returns; it prints one warning and the
\* returned logger has the wrappers and exactly the sinks of a call with
\* use_wandb false.
C2_NeverFailsOnWandb ==
    (/\ logger.factory = "make_wandb_logger"
     /\ UseWandb
     /\ ~WANDB_LOGGER_AVAILABLE \/ logger.ctor # "ok") =>
        /\ logger.raised = "none"
        /\ printed \in {<<"warning: not available">>,
                        <<"warning: failed to initialize">>}
        /\ logger.sinks = <<Terminal>> \o (IF SaveData THEN <<CSV>> ELSE <<>>)
        /\ logger.sinks = MakeSinks(SaveData, FALSE, NotAttempted, 0).sinks
        /\ logger.wrappers # <<>>

C2_Witness ==
    /\ logger.factory = "make_wandb_logger"
    /\ UseWandb
    /\ logger.ctor = "InitError"
    /\ logger.raised = "none"
    /\ Len(logger.sinks) = 2

\* What a sink receives of a record that passed the throttle: the record
\* without its None entries, None-filtered once and serialized once.
Final(m) == [data |-> [k \in {x \in DOMAIN m.data : m.data[x] # None} |-> m.data[k]],
             nf |-> 1, ser |-> 1]

\* C3: both factories wrap the sink list as Dispatcher, NoneFilter,
\* AsyncLogger (only when asynchronous), TimeFilter, innermost first.  A write
\* that arrives less than time_delta after the last forwarded record, and
\* any write the throttle does not forward, changes neither the queue nor
\* what the sinks received.  The write calls received by the sinks are, for
\* each forwarded record that is no longer queued and in the order of
\* forwarding, one call per sink in list order, each with the record
\* None-filtered once; the queued records are the remaining forwarded ones.
C3_WrapOrderAndDelivery ==
    Returned =>
        LET n == Len(logger.sinks)
            fw == pipe.forwarded
            done == Len(fw) - Len(pipe.queue)
            untouched == /\ Len(pipe.queue) = pipe.before[1]
                         /\ Len(pipe.deliveries) = pipe.before[2]
        IN  /\ logger.wrappers =
                 <<"Dispatcher", "NoneFilter">>
                   \o (IF Asynchronous THEN <<"AsyncLogger">> ELSE <<>>)
                   \o <<"TimeFilter">>
            /\ (lastOp = "write" /\ pipe.before[3] > 0
                  /\ pipe.gap < logger.time_delta) =>
                    Len(fw) = pipe.before[3] /\ untouched
            /\ (lastOp = "write" /\ Len(fw) = pipe.before[3]) => untouched
            /\ (lastOp = "write" /\ pipe.gap > logger.time_delta) =>
                    Len(fw) = pipe.before[3] + 1
            /\ done >= 0
            /\ Len(pipe.deliveries) = n * done
            /\ \A p \in 1..Len(pipe.deliveries) :
                  pipe.deliveries[p] =
                      <<((p - 1) % n) + 1, Final(fw[((p - 1) \div n) + 1])>>
            /\ \A q \in 1..Len(pipe.queue) :
                  pipe.queue[q].msg = fw[done + q]
            /\ ~Asynchronous => pipe.queue = <<>>

C3_Witness ==
    /\ Returned
    /\ Asynchronous
    /\ Len(logger.sinks) = 3
    /\ lastOp = "write"
    /\ pipe.before[3] > 0
    /\ pipe.gap > 0
    /\ pipe.gap < logger.time_delta
    /\ pipe.deliveries # <<>>

\* C4: wandb.init is called only by a constructor with init_wandb true that
\* finds no active run; a constructor that returns without calling it holds
\* the run that was active; the loggers constructed with no wandb.finish in
\* between hold the same run, and that run is the active one until
\* wandb.finish is called.
C4_InitOnlyWithoutRun ==
    /\ lastCtor.calledInit => (lastCtor.init_wandb /\ lastCtor.runBefore = None)
    /\ (lastCtor.exc = "ok" /\ ~lastCtor.calledInit) =>
          (lastCtor.runBefore # None /\ lastCtor.selfRun = lastCtor.runBefore)
    /\ \A i, j \in 1..Len(wandbLoggers) :
          wandbLoggers[i].epoch = wandbLoggers[j].epoch =>
              wandbLoggers[i].run = wandbLoggers[j].run
    /\ \A i \in 1..Len(wandbLoggers) :
          wandbLoggers[i].epoch = finishCalls =>
              wandbLoggers[i].run = wandbRun

C4_Witness ==
    /\ Len(wandbLoggers) >= 2
    /\ wandbLoggers[1].epoch = wandbLoggers[2].epoch
    /\ lastCtor.exc = "ok"
    /\ lastCtor.init_wandb
    /\ ~lastCtor.calledInit
    /\ initCalls >= 1

\* Every constructed WandbLogger holds a run, and no write took the early
\* return for a missing run.
AllHoldRun ==
    /\ \A i \in 1..Len(wandbLoggers) : wandbLoggers[i].run # None
    /\ wandbLog.kind # "skipped"

\* An ImportError comes before any other effect of the constructor.
ImportErrorFirst ==
    lastCtor.exc = "ImportError" =>
        (~lastCtor.calledInit /\ lastCtor.run = lastCtor.runBefore)

\* C5 as stated: every constructed WandbLogger holds a non-None run, and a
\* construction ends in exactly one of three ways: ImportError iff wandb is
\* not installed, RuntimeError iff wandb is installed and there is no run
\* after the initialization step, and success otherwise.
C5_Original ==
    /\ AllHoldRun
    /\ ImportErrorFirst
    /\ lastCtor.exc # "not_attempted" =>
          /\ lastCtor.exc = "ImportError" <=> ~WANDB_AVAILABLE
          /\ lastCtor.exc = "RuntimeError" <=>
                (WANDB_AVAILABLE /\ lastCtor.selfRun = None)
          /\ lastCtor.exc = "ok" <=>
                (WANDB_AVAILABLE /\ lastCtor.selfRun # None)

\* C5 (amended): every constructed WandbLogger holds a non-None run, and a
\* construction ends in exactly one of four ways: ImportError (before any
\* other effect) iff wandb is not installed; the error of wandb.init iff
\* wandb.init is called and raises; RuntimeError iff the initialization
\* step completes without a run; success otherwise.  No write takes the
\* early return for a missing run.
C5_Amended ==
    /\ AllHoldRun
    /\ ImportErrorFirst
    /\ lastCtor.exc # "not_attempted" =>
          LET initRaised == lastCtor.calledInit /\ lastCtor.initOutcome = "raise"
          IN  /\ lastCtor.exc = "ImportError" <=> ~WANDB_AVAILABLE
              /\ lastCtor.exc = "InitError" <=> (WANDB_AVAILABLE /\ initRaised)
              /\ lastCtor.exc = "RuntimeError" <=>
                    (WANDB_AVAILABLE /\ ~initRaised /\ lastCtor.selfRun = None)
              /\ lastCtor.exc = "ok" <=>
                    (WANDB_AVAILABLE /\ ~initRaised /\ lastCtor.selfRun # None)
              /\ (~lastCtor.init_wandb /\ lastCtor.runBefore = None) =>
                    lastCtor.exc \in {"ImportError", "RuntimeError"}

C5_Witness ==
    /\ Len(wandbLoggers) >= 1
    /\ wandbLog.kind = "log"
    /\ lastCtor.exc = "RuntimeError"
    /\ ~lastCtor.init_wandb

\* C6: a close or write call on a WandbLogger leaves wandb.run, the count of
\* wandb.finish calls and the loggers as they are, and a write made while a
\* run is active reaches wandb.log for that run; a run stops being active
\* only in a finish_wandb call; a finish_wandb call made when wandb is not
\* installed or no run is active calls nothing and changes nothing.
C6_CloseKeepsRun ==
    [][ /\ lastOp' \in {"WandbLogger.close", "WandbLogger.write"} =>
              /\ wandbRun' = wandbRun
              /\ finishCalls' = finishCalls
              /\ wandbLoggers' = wandbLoggers
        /\ (lastOp' = "WandbLogger.write" /\ wandbRun # None) =>
              (wandbLog'.kind = "log" /\ wandbLog'.run = wandbRun)
        /\ (wandbRun # None /\ wandbRun' = None) => lastOp' = "finish_wandb"
        /\ (lastOp' = "finish_wandb" /\ (~WANDB_AVAILABLE \/ wandbRun = None)) =>
              (finishCalls' = finishCalls /\ wandbRun' = wandbRun)
        /\ finishCalls' # finishCalls =>
              (lastOp' = "finish_wandb" /\ wandbRun # None /\ wandbRun' = None)
      ]_vars

C6_Witness ==
    /\ lastOp = "WandbLogger.close"
    /\ Len(wandbLoggers) >= 2
    /\ wandbRun # None
    /\ wandbRun = wandbLoggers[2].run
    /\ finishCalls >= 1

\* C7: __init__ fails an assertion, with nothing built, exactly when
\* max_episode_steps > 0 and obs_dim > 0 do not both hold; otherwise the
\* wandb config bound in the learner's logger_fn is None iff use_wandb is
\* false, and the evaluator factories passed on are the caller's list when
\* one is given, else the empty list when local and one default factory
\* when not.
C7_AgentDecisions ==
    agent.phase = "done" =>
        LET c == agent.config
            r == agent.result
            ef == agent.evaluator_factories
        IN  /\ r.exc = "AssertionError" <=>
                  ~(c.max_episode_steps > 0 /\ c.obs_dim > 0)
            /\ r.exc = "AssertionError" => r.built = <<>>
            /\ r.exc \in {"AssertionError", "none"}
            /\ r.exc = "none" =>
                  /\ r.logger_fn.wandb_config.isNone <=> ~c.use_wandb
                  /\ r.logger_fn.use_wandb = c.use_wandb
                  /\ ~ef.isNone => r.evaluator_factories = ef.items
                  /\ (ef.isNone /\ c.local) => r.evaluator_factories = <<>>
                  /\ (ef.isNone /\ ~c.local) =>
                        r.evaluator_factories = <<"default_evaluator_factory">>

C7_Witness ==
    /\ agent.phase = "done"
    /\ agent.result.exc = "none"
    /\ agent.config.local
    /\ agent.config.use_wandb
    /\ agent.evaluator_factories = List(<<"custom_a", "custom_b">>)
    /\ agent.result.evaluator_factories = <<"custom_a", "custom_b">>

====
